---- MODULE Spec2Model ----
(***************************************************************************)
(* A model of skills/kicad_helper.py: the schematic builder                *)
(* (create_schematic and its helpers), the pin reference resolver, the     *)
(* auto-layout engine, the signal classifier and the MCU-pair builder      *)
(* (draw_mcu_connection).                                                  *)
(*                                                                         *)
(* Python strings are sequences of one-character strings, so that split,   *)
(* substring search, prefix tests and upper-casing are computed.  Lengths  *)
(* in millimetres are integers in hundredths of a millimetre (2.54 mm is   *)
(* 254).  The schematic-editing library and the kicad-cli renderer are the *)
(* environment: each of their calls succeeds or fails nondeterministically.*)
(***************************************************************************)
EXTENDS Integers, Sequences, FiniteSets, TLC

VARIABLES
    ksa,                \* module global: TRUE iff kicad_sch_api was imported
    fs,                 \* the directories and files that exist (paths)
    components,         \* create_schematic argument: ordered mapping, as a sequence of specs
    connections,        \* create_schematic argument: sequence of <<src, dst>>
    power_connections,  \* create_schematic argument: None or a sequence of groups
    filename,           \* create_schematic argument, then the resolved output path
    output_dir,         \* create_schematic argument: None or a directory path
    render_svg,         \* create_schematic argument
    auto_layout,        \* create_schematic argument
    pc,                 \* the position of the running call
    idx,                \* the index of the next item of the running loop
    positions,          \* create_schematic local: ref -> position from auto-layout
    pin_maps,           \* create_schematic local: ref -> pin name -> pin number
    calls,              \* every call made on the collaborators, in order
    raised,             \* the exception that left the call, or None
    ret,                \* the value the call returned, or None
    mcu,                \* draw_mcu_connection arguments (None outside such a call)
    pullup_count,       \* draw_mcu_connection local
    processed_i2c_pins, \* draw_mcu_connection local
    args,               \* the arguments of the pure function under check
    faults              \* TRUE iff the collaborators may fail in this run

vars == <<ksa, fs, components, connections, power_connections, filename,
          output_dir, render_svg, auto_layout, pc, idx, positions, pin_maps,
          calls, raised, ret, mcu, pullup_count, processed_i2c_pins, args,
          faults>>

\* An optional value (a key a dict may lack, an argument that may be None) is
\* a sequence of at most one element.
None == <<>>
Some(v) == <<v>>

(***************************************************************************)
(* Bounds of the model.                                                    *)
(***************************************************************************)
MaxComps == 2
MaxConns == 2
MaxGroups == 2
MaxPins == 3
MaxPairs == 3
MaxCalls == 2

(***************************************************************************)
(* Python str operations on sequences of characters.                       *)
(***************************************************************************)
LowerChars == <<"a", "b", "c", "d", "e", "f", "g", "h", "i", "j", "k", "l", "m", "n", "o", "p", "q", "r", "s", "t", "u", "v", "w", "x", "y", "z">>
UpperChars == <<"A", "B", "C", "D", "E", "F", "G", "H", "I", "J", "K", "L", "M", "N", "O", "P", "Q", "R", "S", "T", "U", "V", "W", "X", "Y", "Z">>

\* str.upper() on one character
UpperChar(c) ==
    IF \E k \in 1..Len(LowerChars) : LowerChars[k] = c
    THEN UpperChars[CHOOSE k \in 1..Len(LowerChars) : LowerChars[k] = c]
    ELSE c

\* str.upper()
Upper(s) == [k \in 1..Len(s) |-> UpperChar(s[k])]

\* the occurrence test of `needle in hay` at offset k
MatchAt(hay, needle, k) ==
    /\ k + Len(needle) - 1 <= Len(hay)
    /\ \A m \in 1..Len(needle) : hay[k + m - 1] = needle[m]

\* `needle in hay`
Contains(hay, needle) == \E k \in 1..(Len(hay) + 1) : MatchAt(hay, needle, k)

\* hay.startswith(prefix)
StartsWith(hay, prefix) == MatchAt(hay, prefix, 1)

RECURSIVE SplitFrom(_, _, _, _)
\* str.split(sep) for a one-character sep: the parts of s from offset k on,
\* cur being the part read so far
SplitFrom(s, sep, k, cur) ==
    IF k > Len(s) THEN <<cur>>
    ELSE IF s[k] = sep THEN <<cur>> \o SplitFrom(s, sep, k + 1, <<>>)
    ELSE SplitFrom(s, sep, k + 1, Append(cur, s[k]))

Split(s, sep) == SplitFrom(s, sep, 1, <<>>)

\* the last element of a non-empty list: parts[-1]
Last(parts) == parts[Len(parts)]

(***************************************************************************)
(* Constants of the module.                                                *)
(***************************************************************************)
GRID_SPACING == 254
COMPONENT_SPACING_X == 4000
COMPONENT_SPACING_Y == 1000
DEFAULT_OUTPUT_DIR == <<<<"K", "i", "C", "a", "d">>>>

(***************************************************************************)
(* _snap_to_grid: round(value / grid) * grid.  Python's round() rounds a   *)
(* half to the even neighbour.                                             *)
(***************************************************************************)
PyRound(num, den) ==
    LET q == num \div den
        r == num % den
    IN  IF 2 * r < den THEN q
        ELSE IF 2 * r > den THEN q + 1
        ELSE IF q % 2 = 0 THEN q ELSE q + 1

_snap_to_grid(value) == PyRound(value, GRID_SPACING) * GRID_SPACING

(***************************************************************************)
(* _parse_pin_ref.  A pin map is a set of <<name, number>> pairs with      *)
(* unique names; pin_maps is a function from the refs it holds to pin      *)
(* maps.  The result is [ok |-> TRUE, ref, pin] or the ValueError.         *)
(***************************************************************************)
HasKey(map, name) == \E e \in map : e[1] = name
Lookup(map, name) == (CHOOSE e \in map : e[1] = name)[2]

ValueError == [ok |-> FALSE, exc |-> "ValueError"]

\* the resolver without the check of the number of parts
ParsePinRef_NoFormatCheck(pin_ref, maps) ==
    LET parts == Split(pin_ref, ".")
        ref == parts[1]
        pin_name == Last(parts)
    IN  [ok |-> TRUE, ref |-> ref,
         pin |-> IF ref \in DOMAIN maps /\ HasKey(maps[ref], pin_name)
                 THEN Lookup(maps[ref], pin_name) ELSE pin_name]

_parse_pin_ref(pin_ref, maps) ==
    LET parts == Split(pin_ref, ".")
    IN  IF Len(parts) # 2 THEN ValueError
        ELSE LET ref == parts[1]
                 pin_name == parts[2]
             IN  [ok |-> TRUE, ref |-> ref,
                  pin |-> IF ref \in DOMAIN maps /\ HasKey(maps[ref], pin_name)
                          THEN Lookup(maps[ref], pin_name) ELSE pin_name]

(***************************************************************************)
(* _auto_layout_components.  A component spec is a record [ref, lib_id,    *)
(* pins, position]; a key the caller left out holds None.  The mapping     *)
(* keeps its insertion order, so it is a sequence of specs with distinct   *)
(* refs.                                                                   *)
(***************************************************************************)
\* dict.get(key, default) on an optional value
Get(opt, default) == IF opt = None THEN default ELSE opt[1]

MCU_MARKERS == <<<<"M", "C", "U">>, <<"M", "o", "d", "u", "l", "e">>, <<"I", "C">>>>
PASSIVE_PREFIXES == <<<<"D", "e", "v", "i", "c", "e", ":", "R">>, <<"D", "e", "v", "i", "c", "e", ":", "C">>, <<"D", "e", "v", "i", "c", "e", ":", "L">>>>

IsMcuId(lib_id) == \E k \in 1..Len(MCU_MARKERS) : Contains(lib_id, MCU_MARKERS[k])
IsPassiveId(lib_id) ==
    \E k \in 1..Len(PASSIVE_PREFIXES) : StartsWith(lib_id, PASSIVE_PREFIXES[k])

\* a categorisation that tests the passive prefixes before the markers
Category_PassiveFirst(lib_id) ==
    IF IsPassiveId(lib_id) THEN "passives"
    ELSE IF IsMcuId(lib_id) THEN "mcus"
    ELSE "others"

\* the list a component is appended to (lines 302-307)
Category(lib_id) ==
    IF IsMcuId(lib_id) THEN "mcus"
    ELSE IF IsPassiveId(lib_id) THEN "passives"
    ELSE "others"

RECURSIVE RefsOf(_, _)
\* the refs of the components of one category, in insertion order
RefsOf(comps, cat) ==
    IF comps = <<>> THEN <<>>
    ELSE (IF Category(Get(Head(comps).lib_id, <<>>)) = cat
          THEN <<Head(comps).ref>> ELSE <<>>) \o RefsOf(Tail(comps), cat)

\* enumerate(): the index, from 0, of ref in a list that holds it once
IndexOf(list, ref) == (CHOOSE k \in 1..Len(list) : list[k] = ref) - 1

InList(list, ref) == \E k \in 1..Len(list) : list[k] = ref

_auto_layout_components(comps) ==
    LET mcus == RefsOf(comps, "mcus")
        passives == RefsOf(comps, "passives")
        others == RefsOf(comps, "others")
        y_offset == 5000
        passive_x == 5000 + (Len(mcus) * COMPONENT_SPACING_X * 2) + COMPONENT_SPACING_X
        other_x == passive_x + COMPONENT_SPACING_X * 2
    IN  [ref \in {comps[k].ref : k \in 1..Len(comps)} |->
            IF InList(mcus, ref)
            THEN <<5000 + (IndexOf(mcus, ref) * COMPONENT_SPACING_X * 2), y_offset>>
            ELSE IF InList(passives, ref)
            THEN LET i == IndexOf(passives, ref)
                     row == i \div 4
                     col == i % 4
                 IN  <<passive_x + ((col * COMPONENT_SPACING_X) \div 2),
                       y_offset + (row * COMPONENT_SPACING_Y)>>
            ELSE <<other_x, y_offset + (IndexOf(others, ref) * COMPONENT_SPACING_Y)>>]

(***************************************************************************)
(* SIGNAL_PATTERNS, in the order of the dict, and _infer_signal_type.      *)
(***************************************************************************)
SIGNAL_PATTERNS == <<
    <<<<"S", "D", "A">>, "I2C Data">>,
    <<<<"S", "C", "L">>, "I2C Clock">>,
    <<<<"M", "O", "S", "I">>, "SPI Data">>,
    <<<<"M", "I", "S", "O">>, "SPI Data">>,
    <<<<"S", "C", "K">>, "SPI Clock">>,
    <<<<"S", "C", "L", "K">>, "SPI Clock">>,
    <<<<"C", "S">>, "SPI Select">>,
    <<<<"S", "S">>, "SPI Select">>,
    <<<<"N", "S", "S">>, "SPI Select">>,
    <<<<"G", "N", "D">>, "Ground">>,
    <<<<"V", "C", "C">>, "Power">>,
    <<<<"V", "D", "D">>, "Power">>,
    <<<<"3", "V", "3">>, "Power">>,
    <<<<"3", ".", "3", "V">>, "Power">>,
    <<<<"5", "V">>, "Power">>,
    <<<<"1", "2", "V">>, "Power">>,
    <<<<"V", "B", "A", "T">>, "Power">>,
    <<<<"V", "I", "N">>, "Power">>,
    <<<<"V", "O", "U", "T">>, "Power">>,
    <<<<"P", "W", "M">>, "PWM">>,
    <<<<"A", "D", "C">>, "Analog">>,
    <<<<"D", "A", "C">>, "Analog">>,
    <<<<"I", "N", "T">>, "Interrupt">>,
    <<<<"I", "R", "Q">>, "Interrupt">>,
    <<<<"R", "S", "T">>, "Reset">>,
    <<<<"R", "E", "S", "E", "T">>, "Reset">>,
    <<<<"E", "N">>, "Enable">>,
    <<<<"E", "N", "A", "B", "L", "E">>, "Enable">>,
    <<<<"R", "S", "4", "8", "5">>, "RS-485">>,
    <<<<"R", "S", "4", "2", "2">>, "RS-422">>,
    <<<<"4", "8", "5", "_", "D", "E">>, "RS-485 Driver Enable">>,
    <<<<"4", "8", "5", "_", "R", "E">>, "RS-485 Receiver Enable">>,
    <<<<"4", "8", "5", "_", "D", "I">>, "RS-485 Driver Input">>,
    <<<<"4", "8", "5", "_", "R", "O">>, "RS-485 Receiver Output">>,
    <<<<"D", "A", "T", "A", "+">>, "RS-485 Data+">>,
    <<<<"D", "A", "T", "A", "-">>, "RS-485 Data-">>,
    <<<<"C", "A", "N", "H">>, "CAN High">>,
    <<<<"C", "A", "N", "L">>, "CAN Low">>,
    <<<<"C", "A", "N", "_", "H">>, "CAN High">>,
    <<<<"C", "A", "N", "_", "L">>, "CAN Low">>,
    <<<<"C", "A", "N", "_", "T", "X">>, "CAN TX">>,
    <<<<"C", "A", "N", "_", "R", "X">>, "CAN RX">> >>

RS485_PINS == {<<"D", "I">>, <<"R", "O">>, <<"D", "E">>, <<"R", "E">>, <<"/", "R", "E">>, <<"~", "R", "E">>}

RECURSIVE FirstPattern(_, _, _)
\* the for loop over SIGNAL_PATTERNS.items(): the label of the first keyword
\* of table, from entry k on, that combined contains
FirstPattern(table, combined, k) ==
    IF k > Len(table) THEN ""
    ELSE IF Contains(combined, table[k][1]) THEN table[k][2]
    ELSE FirstPattern(table, combined, k + 1)

\* the trailing token of a pin reference, upper-cased (lines 582-583)
TrailingPin(s) == IF Contains(s, <<".">>) THEN Upper(Last(Split(s, "."))) ELSE Upper(s)

\* the UART cross-connection test (line 588)
IsUartCross(src_upper, dst_upper) ==
    \/ (Contains(src_upper, <<"T", "X">>) /\ Contains(dst_upper, <<"R", "X">>))
    \/ (Contains(src_upper, <<"R", "X">>) /\ Contains(dst_upper, <<"T", "X">>))

\* the CAN special case (lines 569-577)
CanLabel(combined) ==
    IF Contains(combined, <<"C", "A", "N", "H">>) \/ Contains(combined, <<"C", "A", "N", "_", "H">>) THEN "CAN High"
    ELSE IF Contains(combined, <<"C", "A", "N", "L">>) \/ Contains(combined, <<"C", "A", "N", "_", "L">>) THEN "CAN Low"
    ELSE IF Contains(combined, <<"C", "A", "N", "_", "T", "X">>) \/ Contains(combined, <<"C", "A", "N", "T", "X">>) THEN "CAN TX"
    ELSE IF Contains(combined, <<"C", "A", "N", "_", "R", "X">>) \/ Contains(combined, <<"C", "A", "N", "R", "X">>) THEN "CAN RX"
    ELSE "CAN"

\* a classifier that tests the UART cross-connection before the CAN case
InferSignalType_UartFirst(src, dst) ==
    LET src_upper == Upper(src)
        dst_upper == Upper(dst)
        combined == src_upper \o dst_upper
    IN  IF IsUartCross(src_upper, dst_upper) THEN "UART"
        ELSE IF Contains(combined, <<"C", "A", "N">>) THEN CanLabel(combined)
        ELSE IF TrailingPin(src) \in RS485_PINS \/ TrailingPin(dst) \in RS485_PINS
        THEN "RS-485"
        ELSE FirstPattern(SIGNAL_PATTERNS, combined, 1)

_infer_signal_type(src, dst) ==
    LET src_upper == Upper(src)
        dst_upper == Upper(dst)
        combined == src_upper \o dst_upper
    IN  IF Contains(combined, <<"C", "A", "N">>) THEN CanLabel(combined)
        ELSE IF TrailingPin(src) \in RS485_PINS \/ TrailingPin(dst) \in RS485_PINS
        THEN "RS-485"
        ELSE IF IsUartCross(src_upper, dst_upper) THEN "UART"
        ELSE FirstPattern(SIGNAL_PATTERNS, combined, 1)

(***************************************************************************)
(* The file system.  A directory is a sequence of segment names, a file is *)
(* a record [dir, base, ext]; fs is [dirs, files], the sets of those that  *)
(* exist.                                                                  *)
(***************************************************************************)
RECURSIVE Prefixes(_)
\* os.makedirs creates the directory and every missing parent
Prefixes(dir) == IF dir = <<>> THEN {} ELSE {dir} \cup Prefixes(SubSeq(dir, 1, Len(dir) - 1))

\* a resolver that prepends a given output_dir to every filename
GetOutputPath_OutputDirWins(name, out_dir, files) ==
    LET output_path ==
            IF name.dir # <<>> /\ (out_dir = None \/ out_dir[1] = <<>>) THEN name
            ELSE [name EXCEPT !.dir = IF out_dir = None \/ out_dir[1] = <<>>
                                      THEN DEFAULT_OUTPUT_DIR ELSE out_dir[1]]
        dir_path == output_path.dir
    IN  [path |-> output_path,
         fs |-> IF dir_path # <<>> /\ dir_path \notin files.dirs
                THEN [files EXCEPT !.dirs = @ \cup Prefixes(dir_path)]
                ELSE files]

\* _get_output_path: the resolved path and the file system it leaves
_get_output_path(name, out_dir, files) ==
    LET output_path ==
            IF name.dir # <<>> THEN name
            ELSE [name EXCEPT !.dir = IF out_dir = None \/ out_dir[1] = <<>>
                                      THEN DEFAULT_OUTPUT_DIR ELSE out_dir[1]]
        dir_path == output_path.dir
    IN  [path |-> output_path,
         fs |-> IF dir_path # <<>> /\ dir_path \notin files.dirs
                THEN [files EXCEPT !.dirs = @ \cup Prefixes(dir_path)]
                ELSE files]

(***************************************************************************)
(* create_schematic.  pc is the position in the body:                      *)
(*   "start"        before line 158                                        *)
(*   "components"   in the loop of lines 172-197, at item idx              *)
(*   "connections"  in the loop of lines 208-230, at item idx              *)
(*   "power"        in the loop of lines 234-235, at item idx              *)
(*   "save"         before line 238                                        *)
(*   "render"       before line 242                                        *)
(*   "md"           before line 248                                        *)
(*   "returned"     after line 254                                         *)
(*   "raised"       an exception left the call                             *)
(* calls records, in order, every call on a collaborator and every line    *)
(* printed; "label_try" and "join_try" mark the entry of the try blocks of *)
(* lines 345 and 358.  A wire event carries the index of its connection    *)
(* or of its group and pair, and 0 for the other.                          *)
(***************************************************************************)
Refs(comps) == {comps[k].ref : k \in 1..Len(comps)}

\* the outcomes of a call on a collaborator
Outcomes == IF faults THEN BOOLEAN ELSE {TRUE}

\* a body that resolves the output path before the dependency check
Begin_PathBeforeCheck ==
    /\ pc = "start"
    /\ LET out == _get_output_path(filename, output_dir, fs)
       IN  /\ filename' = out.path
           /\ fs' = out.fs
           /\ IF ~ksa
              THEN /\ raised' = Some([exc |-> "ImportError", at |-> "_ensure_ksa"])
                   /\ pc' = "raised"
                   /\ UNCHANGED <<calls, positions, idx>>
              ELSE /\ calls' = Append(calls, [op |-> "create_schematic"])
                   /\ positions' = IF auto_layout
                                   THEN _auto_layout_components(components) ELSE <<>>
                   /\ pc' = "components"
                   /\ idx' = 1
                   /\ UNCHANGED raised
    /\ UNCHANGED <<ksa, components, connections, power_connections, output_dir,
                   render_svg, auto_layout, pin_maps, ret, mcu, pullup_count,
                   processed_i2c_pins, args, faults>>

\* lines 158-169: the dependency check, the output path, the empty
\* schematic and the auto-layout
Begin ==
    /\ pc = "start"
    /\ IF ~ksa
       THEN /\ raised' = Some([exc |-> "ImportError", at |-> "_ensure_ksa"])
            /\ pc' = "raised"
            /\ UNCHANGED <<fs, filename, calls, positions, idx>>
       ELSE LET out == _get_output_path(filename, output_dir, fs)
            IN  /\ filename' = out.path
                /\ fs' = out.fs
                /\ calls' = Append(calls, [op |-> "create_schematic"])
                /\ positions' = IF auto_layout THEN _auto_layout_components(components)
                                ELSE <<>>
                /\ pc' = "components"
                /\ idx' = 1
                /\ UNCHANGED raised
    /\ UNCHANGED <<ksa, components, connections, power_connections, output_dir,
                   render_svg, auto_layout, pin_maps, ret, mcu, pullup_count,
                   processed_i2c_pins, args, faults>>

\* an explicit position handed over as given, only the others snapped
PlacePosition_OverrideUnsnapped(spec, layout) ==
    IF spec.position # None THEN spec.position[1]
    ELSE IF spec.ref \in DOMAIN layout
    THEN <<_snap_to_grid(layout[spec.ref][1]), _snap_to_grid(layout[spec.ref][2])>>
    ELSE <<_snap_to_grid(10000), _snap_to_grid(10000)>>

\* lines 177-186: the position handed to the collaborator
PlacePosition(spec, layout) ==
    LET pos == IF spec.position # None THEN spec.position[1]
               ELSE IF spec.ref \in DOMAIN layout THEN layout[spec.ref]
               ELSE <<10000, 10000>>
    IN  <<_snap_to_grid(pos[1]), _snap_to_grid(pos[2])>>

\* the events of one iteration of lines 172-197; ok is the outcome of
\* sch.components.add
AddEvents(spec, layout, ok) ==
    <<[op |-> "add", ref |-> spec.ref, lib_id |-> Get(spec.lib_id, <<"D", "e", "v", "i", "c", "e", ":", "R">>),
       pos |-> PlacePosition(spec, layout), ok |-> ok]>>
    \o (IF ok THEN <<>> ELSE <<[op |-> "print", what |-> "component", ref |-> spec.ref]>>)

\* an iteration whose placement failure leaves the call
AddComponent_Uncaught ==
    /\ pc = "components"
    /\ idx <= Len(components)
    /\ \E ok \in Outcomes :
          /\ calls' = calls \o <<AddEvents(components[idx], positions, ok)[1]>>
          /\ IF ok
             THEN /\ idx' = idx + 1
                  /\ UNCHANGED <<pc, raised>>
             ELSE /\ pc' = "raised"
                  /\ raised' = Some([exc |-> "Exception", at |-> "components.add"])
                  /\ UNCHANGED idx
    /\ UNCHANGED <<ksa, fs, components, connections, power_connections, filename,
                   output_dir, render_svg, auto_layout, positions, pin_maps,
                   ret, mcu, pullup_count, processed_i2c_pins, args, faults>>

\* one iteration of lines 172-197
AddComponent ==
    /\ pc = "components"
    /\ idx <= Len(components)
    /\ \E ok \in Outcomes :
          calls' = calls \o AddEvents(components[idx], positions, ok)
    /\ idx' = idx + 1
    /\ UNCHANGED <<ksa, fs, components, connections, power_connections, filename,
                   output_dir, render_svg, auto_layout, pc, positions, pin_maps,
                   raised, ret, mcu, pullup_count, processed_i2c_pins, args, faults>>

\* lines 199-205: the pin maps, an empty map for a component without 'pins'
BuildPinMaps ==
    /\ pc = "components"
    /\ idx > Len(components)
    /\ pin_maps' = [ref \in Refs(components) |->
                      Get(components[CHOOSE k \in 1..Len(components) :
                                        components[k].ref = ref].pins, {})]
    /\ pc' = "connections"
    /\ idx' = 1
    /\ UNCHANGED <<ksa, fs, components, connections, power_connections, filename,
                   output_dir, render_svg, auto_layout, positions, calls,
                   raised, ret, mcu, pullup_count, processed_i2c_pins, args, faults>>

\* an iteration that makes the direct wire whatever the route did
ConnectEvents_WireAlways(k, conn, maps, route_ok, wire_ok) ==
    LET s == _parse_pin_ref(conn[1], maps)
        d == _parse_pin_ref(conn[2], maps)
    IN  IF ~s.ok \/ ~d.ok
        THEN <<[op |-> "print", what |-> "parse", conn |-> k]>>
        ELSE <<[op |-> "auto_route_pins", conn |-> k, src |-> s, dst |-> d,
                ok |-> route_ok],
               [op |-> "add_wire_between_pins", conn |-> k, group |-> 0,
                pair |-> 0, src |-> s, dst |-> d, ok |-> wire_ok]>>
             \o (IF wire_ok THEN <<>>
                 ELSE <<[op |-> "print", what |-> "connect", conn |-> k]>>)

\* the events of one iteration of lines 208-230: route_ok and wire_ok are the
\* outcomes of sch.auto_route_pins and sch.add_wire_between_pins
ConnectEvents(k, conn, maps, route_ok, wire_ok) ==
    LET s == _parse_pin_ref(conn[1], maps)
        d == _parse_pin_ref(conn[2], maps)
    IN  IF ~s.ok \/ ~d.ok
        THEN <<[op |-> "print", what |-> "parse", conn |-> k]>>
        ELSE <<[op |-> "auto_route_pins", conn |-> k, src |-> s, dst |-> d,
                ok |-> route_ok]>>
             \o (IF route_ok THEN <<>>
                 ELSE <<[op |-> "add_wire_between_pins", conn |-> k, group |-> 0,
                         pair |-> 0, src |-> s, dst |-> d, ok |-> wire_ok]>>
                      \o (IF wire_ok THEN <<>>
                          ELSE <<[op |-> "print", what |-> "connect", conn |-> k]>>))

\* one iteration of lines 208-230
Connect ==
    /\ pc = "connections"
    /\ idx <= Len(connections)
    /\ \E route_ok \in Outcomes, wire_ok \in Outcomes :
          calls' = calls \o ConnectEvents(idx, connections[idx], pin_maps,
                                          route_ok, wire_ok)
    /\ idx' = idx + 1
    /\ UNCHANGED <<ksa, fs, components, connections, power_connections, filename,
                   output_dir, render_svg, auto_layout, pc, positions, pin_maps,
                   raised, ret, mcu, pullup_count, processed_i2c_pins, args, faults>>

\* `if power_connections:` is false for None and for an empty list
Truthy(opt_list) == opt_list # None /\ opt_list[1] # <<>>

\* line 233, after the last connection
ConnectionsDone ==
    /\ pc = "connections"
    /\ idx > Len(connections)
    /\ pc' = IF Truthy(power_connections) THEN "power" ELSE "save"
    /\ idx' = 1
    /\ UNCHANGED <<ksa, fs, components, connections, power_connections, filename,
                   output_dir, render_svg, auto_layout, positions, pin_maps, calls,
                   raised, ret, mcu, pullup_count, processed_i2c_pins, args, faults>>

(***************************************************************************)
(* _add_power_net.  label is the outcome of the label step: "ok",          *)
(* "no_pin_position" (sch.get_component_pin_position failed) or            *)
(* "label_failed" (sch.add_label failed); wire_ok[i] is the outcome of     *)
(* sch.add_wire_between_pins for the pair (pin i, pin i+1).                *)
(***************************************************************************)
LabelOutcomes == IF faults THEN {"ok", "no_pin_position", "label_failed"} ELSE {"ok"}

\* lines 345-352, g being the index of the group
LabelEvents(g, first, net_name, label) ==
    <<[op |-> "label_try", group |-> g]>>
    \o <<[op |-> "get_component_pin_position", group |-> g, pin |-> first,
          ok |-> (label # "no_pin_position")]>>
    \o (IF label = "no_pin_position" THEN <<>>
        ELSE <<[op |-> "add_label", group |-> g, net |-> net_name,
                ok |-> (label = "ok")]>>)
    \o (IF label = "ok" THEN <<>>
        ELSE <<[op |-> "print", what |-> "label", group |-> g]>>)

RECURSIVE JoinEvents(_, _, _, _, _)
\* lines 355-363 from pair i on
JoinEvents(g, pin_list, maps, wire_ok, i) ==
    IF i > Len(pin_list) - 1 THEN <<>>
    ELSE LET s == _parse_pin_ref(pin_list[i], maps)
             d == _parse_pin_ref(pin_list[i + 1], maps)
         IN  <<[op |-> "join_try", group |-> g, pair |-> i]>>
             \o (IF ~s.ok \/ ~d.ok
                 THEN <<[op |-> "print", what |-> "power", group |-> g, pair |-> i]>>
                 ELSE <<[op |-> "add_wire_between_pins", conn |-> 0, group |-> g,
                         pair |-> i, src |-> s, dst |-> d, ok |-> wire_ok[i]]>>
                      \o (IF wire_ok[i] THEN <<>>
                          ELSE <<[op |-> "print", what |-> "power", group |-> g,
                                  pair |-> i]>>))
             \o JoinEvents(g, pin_list, maps, wire_ok, i + 1)

\* the call of _add_power_net: [ok |-> FALSE] when the exception of line 344
\* leaves it, else the events it adds
_add_power_net(g, group, maps, label, wire_ok) ==
    IF group.pin_list = <<>> THEN [ok |-> TRUE, events |-> <<>>]
    ELSE LET first == _parse_pin_ref(group.pin_list[1], maps)
         IN  IF ~first.ok THEN [ok |-> FALSE, events |-> <<>>]
             ELSE [ok |-> TRUE,
                   events |-> LabelEvents(g, first, group.net_name, label)
                              \o JoinEvents(g, group.pin_list, maps, wire_ok, 1)]

\* one iteration of lines 234-235
AddPowerNet ==
    /\ pc = "power"
    /\ idx <= Len(power_connections[1])
    /\ LET group == power_connections[1][idx]
       IN  \E label \in LabelOutcomes,
              wire_ok \in [1..(Len(group.pin_list) - 1) -> Outcomes] :
             LET out == _add_power_net(idx, group, pin_maps, label, wire_ok)
             IN  IF out.ok
                 THEN /\ calls' = calls \o out.events
                      /\ idx' = idx + 1
                      /\ UNCHANGED <<pc, raised>>
                 ELSE /\ pc' = "raised"
                      /\ raised' = Some([exc |-> "ValueError", at |-> "_add_power_net"])
                      /\ UNCHANGED <<calls, idx>>
    /\ UNCHANGED <<ksa, fs, components, connections, power_connections, filename,
                   output_dir, render_svg, auto_layout, positions, pin_maps,
                   ret, mcu, pullup_count, processed_i2c_pins, args, faults>>

\* line 237, after the last group
PowerDone ==
    /\ pc = "power"
    /\ idx > Len(power_connections[1])
    /\ pc' = "save"
    /\ UNCHANGED <<ksa, fs, components, connections, power_connections, filename,
                   output_dir, render_svg, auto_layout, idx, positions, pin_maps,
                   calls, raised, ret, mcu, pullup_count, processed_i2c_pins, args, faults>>

\* line 238: sch.save, whose exception leaves the call
Save ==
    /\ pc = "save"
    /\ \E ok \in Outcomes :
          /\ calls' = Append(calls, [op |-> "save", path |-> filename, ok |-> ok])
          /\ IF ok
             THEN /\ fs' = [fs EXCEPT !.files = @ \cup {filename}]
                  /\ pc' = "render"
                  /\ UNCHANGED raised
             ELSE /\ pc' = "raised"
                  /\ raised' = Some([exc |-> "Exception", at |-> "save"])
                  /\ UNCHANGED fs
    /\ UNCHANGED <<ksa, components, connections, power_connections, filename,
                   output_dir, render_svg, auto_layout, idx, positions, pin_maps,
                   ret, mcu, pullup_count, processed_i2c_pins, args, faults>>

(***************************************************************************)
(* _render_svg.  The outcomes of subprocess.run: "ok" (exit status 0),     *)
(* "nonzero_exit", "not_found" (FileNotFoundError), "timeout"              *)
(* (subprocess.TimeoutExpired) and "other_error" (any other exception,     *)
(* also one of the move of lines 392-397).  The result is the path of the  *)
(* SVG or None.                                                            *)
(***************************************************************************)
RenderOutcomes ==
    IF faults THEN {"ok", "nonzero_exit", "not_found", "timeout", "other_error"}
    ELSE {"ok"}

SvgPath(path) == [path EXCEPT !.ext = ".svg"]
MdPath(path) == [path EXCEPT !.ext = ".md"]

\* a renderer whose except clauses miss the timeout
RenderSvg_TimeoutUncaught(path, outcome) ==
    [raised |-> (outcome = "timeout"),
     result |-> IF outcome = "ok" THEN Some(SvgPath(path)) ELSE None]

\* [raised, result] of the call with the given outcome
_render_svg(path, outcome) ==
    [raised |-> FALSE,
     result |-> IF outcome = "ok" THEN Some(SvgPath(path)) ELSE None]

\* lines 242-245 with the render flag set
Render ==
    /\ pc = "render"
    /\ render_svg
    /\ \E outcome \in RenderOutcomes :
          LET r == _render_svg(filename, outcome)
          IN  /\ calls' = calls
                     \o <<[op |-> "kicad-cli", path |-> filename, outcome |-> outcome]>>
                     \o (IF r.result = None
                         THEN <<[op |-> "print", what |-> "render"]>> ELSE <<>>)
              /\ fs' = IF outcome = "ok"
                       THEN [fs EXCEPT !.files = @ \cup {SvgPath(filename)}] ELSE fs
              /\ IF r.raised
                 THEN /\ pc' = "raised"
                      /\ raised' = Some([exc |-> "Exception", at |-> "_render_svg"])
                 ELSE /\ pc' = "md"
                      /\ UNCHANGED raised
    /\ UNCHANGED <<ksa, components, connections, power_connections, filename,
                   output_dir, render_svg, auto_layout, idx, positions, pin_maps,
                   ret, mcu, pullup_count, processed_i2c_pins, args, faults>>

\* line 242 with the render flag clear
SkipRender ==
    /\ pc = "render"
    /\ ~render_svg
    /\ pc' = "md"
    /\ UNCHANGED <<ksa, fs, components, connections, power_connections, filename,
                   output_dir, render_svg, auto_layout, idx, positions, pin_maps,
                   calls, raised, ret, mcu, pullup_count, processed_i2c_pins, args,
                   faults>>

(***************************************************************************)
(* _generate_connection_md.  Of the lines of the report the model keeps    *)
(* the two of the voltage-level note (lines 489-490): voltage_note is TRUE *)
(* iff the report holds them.                                              *)
(***************************************************************************)
\* the markers of line 487
REPORT_MCU_MARKERS == <<<<"M", "C", "U">>, <<"M", "o", "d", "u", "l", "e">>, <<"T", "e", "e", "n", "s", "y">>, <<"A", "r", "d", "u", "i", "n", "o">>, <<"P", "i", "c", "o">>, <<"E", "S", "P">>>>

RECURSIVE ReportMcuRefs(_)
\* mcu_refs of lines 486-487, in insertion order
ReportMcuRefs(comps) ==
    IF comps = <<>> THEN <<>>
    ELSE (IF \E k \in 1..Len(REPORT_MCU_MARKERS) :
                Contains(Get(Head(comps).lib_id, <<>>), REPORT_MCU_MARKERS[k])
          THEN <<Head(comps).ref>> ELSE <<>>) \o ReportMcuRefs(Tail(comps))

\* line 488
VoltageNote(comps) == Len(ReportMcuRefs(comps)) >= 2

\* the events of a call: the write of the report when open() and write()
\* succeed (ok), the warning of line 501 when they do not
ReportEvents(path, comps, ok) ==
    <<[op |-> "write_md", path |-> MdPath(path), ok |-> ok,
       voltage_note |-> VoltageNote(comps)]>>
    \o (IF ok THEN <<>> ELSE <<[op |-> "print", what |-> "markdown"]>>)

\* the value returned: the path of the report, or None
_generate_connection_md(path, comps, ok) == IF ok THEN Some(MdPath(path)) ELSE None

\* lines 248-254: _generate_connection_md, which returns None when the
\* write fails, and the return of the resolved path
GenerateMd ==
    /\ pc = "md"
    /\ \E ok \in Outcomes :
          /\ calls' = calls \o ReportEvents(filename, components, ok)
          /\ fs' = IF ok THEN [fs EXCEPT !.files = @ \cup {MdPath(filename)}] ELSE fs
    /\ ret' = Some(filename)
    /\ pc' = "returned"
    /\ UNCHANGED <<ksa, components, connections, power_connections, filename,
                   output_dir, render_svg, auto_layout, idx, positions, pin_maps,
                   raised, mcu, pullup_count, processed_i2c_pins, args, faults>>

(***************************************************************************)
(* draw_mcu_connection.  mcu holds its arguments; components, connections  *)
(* (full_connections) and power_connections are built in place and handed  *)
(* to create_schematic.  pc is "draw_start" before line 649, "draw_pairs"  *)
(* in the loop of lines 671-693 and then create_schematic's.               *)
(***************************************************************************)
Digits == <<"0", "1", "2", "3", "4", "5", "6", "7", "8", "9">>

RECURSIVE Str(_)
\* str(n) for n >= 0
Str(n) == IF n < 10 THEN <<Digits[n + 1]>> ELSE Str(n \div 10) \o <<Digits[(n % 10) + 1]>>

\* f'{name}.{pin}'
PinRef(name, pin) == name \o <<".">> \o pin

\* components[ref] = spec on an insertion-ordered dict
SetItem(comps, spec) ==
    IF spec.ref \in Refs(comps)
    THEN [k \in 1..Len(comps) |-> IF comps[k].ref = spec.ref THEN spec ELSE comps[k]]
    ELSE Append(comps, spec)

\* lines 649-669
DrawBegin ==
    /\ pc = "draw_start"
    /\ LET m == mcu[1]
       IN  components' =
              SetItem(SetItem(<<>>, [ref |-> m.mcu1_name, lib_id |-> Some(m.mcu1_lib_id),
                                     pins |-> Some(m.mcu1_pins), position |-> None]),
                      [ref |-> m.mcu2_name, lib_id |-> Some(m.mcu2_lib_id),
                       pins |-> Some(m.mcu2_pins), position |-> None])
    /\ connections' = <<>>
    /\ power_connections' = Some(<<>>)
    /\ pullup_count' = 0
    /\ processed_i2c_pins' = {}
    /\ pc' = "draw_pairs"
    /\ idx' = 1
    /\ UNCHANGED <<ksa, fs, filename, output_dir, render_svg, auto_layout, positions,
                   pin_maps, calls, raised, ret, mcu, args, faults>>

\* lines 676-680: the flagged signal of a pair, or None
I2cSignal(i2c_pins, mcu1_pin, mcu2_pin) ==
    IF InList(i2c_pins, mcu1_pin) THEN Some(mcu1_pin)
    ELSE IF InList(i2c_pins, mcu2_pin) THEN Some(mcu2_pin)
    ELSE None

\* the test of line 682 without the set of processed signals
NeedsPullup_NoDedup(i2c_signal, processed) ==
    /\ i2c_signal # None
    /\ i2c_signal[1] # <<>>

\* line 682: whether the pair gets a pull-up
NeedsPullup(i2c_signal, processed) ==
    /\ i2c_signal # None
    /\ i2c_signal[1] # <<>>
    /\ i2c_signal[1] \notin processed

\* one iteration of lines 671-693
McuPair ==
    /\ pc = "draw_pairs"
    /\ idx <= Len(mcu[1].connections)
    /\ LET m == mcu[1]
           mcu1_pin == m.connections[idx][1]
           mcu2_pin == m.connections[idx][2]
           direct == <<PinRef(m.mcu1_name, mcu1_pin), PinRef(m.mcu2_name, mcu2_pin)>>
           i2c_signal == I2cSignal(Get(m.i2c_pins, <<>>), mcu1_pin, mcu2_pin)
           r_ref == <<"R">> \o Str(pullup_count + 1)
       IN  IF NeedsPullup(i2c_signal, processed_i2c_pins)
           THEN /\ processed_i2c_pins' = processed_i2c_pins \cup {i2c_signal[1]}
                /\ pullup_count' = pullup_count + 1
                /\ components' = SetItem(components,
                                   [ref |-> r_ref, lib_id |-> Some(<<"D", "e", "v", "i", "c", "e", ":", "R">>),
                                    pins |-> None, position |-> None])
                /\ connections' = connections
                       \o <<direct, <<PinRef(m.mcu1_name, mcu1_pin), PinRef(r_ref, <<"1">>)>>>>
                /\ power_connections' =
                       Some(Append(power_connections[1],
                                   [pin_list |-> <<PinRef(r_ref, <<"2">>)>>,
                                    net_name |-> "VCC"]))
           ELSE /\ connections' = Append(connections, direct)
                /\ UNCHANGED <<processed_i2c_pins, pullup_count, components,
                               power_connections>>
    /\ idx' = idx + 1
    /\ UNCHANGED <<ksa, fs, filename, output_dir, render_svg, auto_layout, pc,
                   positions, pin_maps, calls, raised, ret, mcu, args, faults>>

\* lines 695-703: the call of create_schematic, auto_layout left at its default
DrawDelegate ==
    /\ pc = "draw_pairs"
    /\ idx > Len(mcu[1].connections)
    /\ power_connections' = IF power_connections[1] # <<>> THEN power_connections
                            ELSE None
    /\ auto_layout' = TRUE
    /\ pc' = "start"
    /\ UNCHANGED <<ksa, fs, components, connections, filename, output_dir,
                   render_svg, idx, positions, pin_maps, calls, raised, ret, mcu,
                   pullup_count, processed_i2c_pins, args, faults>>

\* the events of calls with the given op, in order
CallsOf(op) == SelectSeq(calls, LAMBDA e : e.op = op)

(***************************************************************************)
(* Calls of the pure functions: args holds the arguments, ret the result.  *)
(***************************************************************************)
\* a call of _parse_pin_ref
CallParsePinRef ==
    /\ pc = "call_parse_pin_ref"
    /\ ret' = Some(_parse_pin_ref(args[1].pin_ref, args[1].pin_maps))
    /\ pc' = "returned"
    /\ UNCHANGED <<ksa, fs, components, connections, power_connections, filename,
                   output_dir, render_svg, auto_layout, idx, positions, pin_maps,
                   calls, raised, mcu, pullup_count, processed_i2c_pins, args,
                   faults>>

\* a call of _infer_signal_type
CallInferSignalType ==
    /\ pc = "call_infer_signal_type"
    /\ ret' = Some(_infer_signal_type(args[1].src, args[1].dst))
    /\ pc' = "returned"
    /\ UNCHANGED <<ksa, fs, components, connections, power_connections, filename,
                   output_dir, render_svg, auto_layout, idx, positions, pin_maps,
                   calls, raised, mcu, pullup_count, processed_i2c_pins, args,
                   faults>>

\* a call of _auto_layout_components; the result keeps the three lists of
\* lines 296-298 beside the positions it returns
CallAutoLayout ==
    /\ pc = "call_auto_layout"
    /\ ret' = Some([positions |-> _auto_layout_components(args[1].components),
                    mcus |-> RefsOf(args[1].components, "mcus"),
                    passives |-> RefsOf(args[1].components, "passives"),
                    others |-> RefsOf(args[1].components, "others")])
    /\ pc' = "returned"
    /\ UNCHANGED <<ksa, fs, components, connections, power_connections, filename,
                   output_dir, render_svg, auto_layout, idx, positions, pin_maps,
                   calls, raised, mcu, pullup_count, processed_i2c_pins, args,
                   faults>>

\* a call of _get_output_path, up to MaxCalls times on the same arguments:
\* "makedirs" is line 86, and the event of the call keeps whether the
\* directory of the path existed on entry
CallGetOutputPath ==
    /\ pc = "call_get_output_path"
    /\ Len(CallsOf("_get_output_path")) < MaxCalls
    /\ LET out == _get_output_path(args[1].filename, args[1].output_dir, fs)
       IN  /\ fs' = out.fs
           /\ calls' = calls
                  \o (IF out.fs # fs
                      THEN <<[op |-> "makedirs", dir |-> out.path.dir]>> ELSE <<>>)
                  \o <<[op |-> "_get_output_path", path |-> out.path,
                        existed |-> (out.path.dir \in fs.dirs)]>>
           /\ ret' = Some(out.path)
    /\ UNCHANGED <<ksa, components, connections, power_connections, filename,
                   output_dir, render_svg, auto_layout, pc, idx, positions,
                   pin_maps, raised, mcu, pullup_count, processed_i2c_pins, args,
                   faults>>

\* a call of _generate_connection_md
CallGenerateConnectionMd ==
    /\ pc = "call_generate_connection_md"
    /\ \E ok \in Outcomes :
          /\ calls' = calls \o ReportEvents(args[1].kicad_sch_path,
                                            args[1].components, ok)
          /\ fs' = IF ok THEN [fs EXCEPT !.files = @ \cup {MdPath(args[1].kicad_sch_path)}]
                   ELSE fs
          /\ ret' = Some(_generate_connection_md(args[1].kicad_sch_path,
                                                 args[1].components, ok))
    /\ pc' = "returned"
    /\ UNCHANGED <<ksa, components, connections, power_connections, filename,
                   output_dir, render_svg, auto_layout, idx, positions, pin_maps,
                   raised, mcu, pullup_count, processed_i2c_pins, args, faults>>

(***************************************************************************)
(* The inputs of the checked runs.                                         *)
(***************************************************************************)
SeqsUpTo(S, n) == UNION {[1..k -> S] : k \in 0..n}

\* the k-th component of a run: a controller with a pin map, a resistor
\* without one, a part whose spec has no 'lib_id', and so on
Component(k, position) ==
    IF k % 3 = 1
    THEN [ref |-> <<"U">> \o Str(k), lib_id |-> Some(<<"M", "C", "U", "_", "M", "o", "d", "u", "l", "e", ":", "T", "4", "1">>),
          pins |-> Some({<<<<"T", "X">>, <<"1">>>>, <<<<"S", "D", "A">>, <<"1", "8">>>>}), position |-> position]
    ELSE IF k % 3 = 2
    THEN [ref |-> <<"R">> \o Str(k), lib_id |-> Some(<<"D", "e", "v", "i", "c", "e", ":", "R">>), pins |-> None,
          position |-> position]
    ELSE [ref |-> <<"J">> \o Str(k), lib_id |-> None, pins |-> None, position |-> position]

\* the component mappings of up to n components with explicit positions
\* (None: no 'position' key) drawn from Positions
ComponentLists(n, Positions) ==
    UNION {{[k \in 1..m |-> Component(k, ps[k])] : ps \in [1..m -> Positions]} :
           m \in 0..n}

GoodPair == <<<<"U", "1", ".", "T", "X">>, <<"R", "2", ".", "1">>>>
BadSrcPair == <<<<"U", "1">>, <<"R", "2", ".", "1">>>>
BadDstPair == <<<<"R", "2", ".", "2">>, <<"U", "1", ".", "S", "D", "A", ".", "x">>>>
ConnPairs == {GoodPair, BadSrcPair, BadDstPair}

Group(pin_list, net_name) == [pin_list |-> pin_list, net_name |-> net_name]

FileBare == [dir |-> <<>>, base |-> "circuit", ext |-> ".kicad_sch"]
FileInDir == [dir |-> <<<<"o", "u", "t">>, <<"r", "e", "v", "1">>>>, base |-> "circuit", ext |-> ".kicad_sch"]
NoFiles == [dirs |-> {}, files |-> {}]

\* no call of draw_mcu_connection and no pure function under check
NoDraw ==
    /\ mcu = None
    /\ pullup_count = 0
    /\ processed_i2c_pins = {}
    /\ args = None

\* the locals of a call of create_schematic that has not begun
Fresh ==
    /\ idx = 1
    /\ positions = <<>>
    /\ pin_maps = <<>>
    /\ calls = <<>>
    /\ raised = None
    /\ ret = None

\* create_schematic on any mapping of up to MaxComps components, any list of up
\* to MaxConns connections, with and without shared-net groups
Init ==
    /\ ksa \in BOOLEAN
    /\ fs = NoFiles
    /\ components \in ComponentLists(MaxComps, {None})
    /\ connections \in SeqsUpTo(ConnPairs, MaxConns)
    /\ power_connections \in {None, Some(<<Group(<<<<"R", "2", ".", "2">>, <<"U", "1", ".", "S", "D", "A">>>>, "VCC")>>),
                              Some(<<Group(<<<<"U", "1">>, <<"R", "2", ".", "2">>>>, "GND")>>)}
    /\ filename \in {FileBare, FileInDir}
    /\ output_dir = None
    /\ render_svg \in BOOLEAN
    /\ auto_layout = TRUE
    /\ pc = "start"
    /\ faults = TRUE
    /\ Fresh
    /\ NoDraw

Next ==
    \/ Begin
    \/ AddComponent
    \/ BuildPinMaps
    \/ Connect
    \/ ConnectionsDone
    \/ AddPowerNet
    \/ PowerDone
    \/ Save
    \/ Render
    \/ SkipRender
    \/ GenerateMd

Spec == Init /\ [][Next]_vars

\* create_schematic on shared-net groups of every shape: up to MaxGroups
\* groups of up to MaxPins pin references, resolvable or not
PowerRefs == {<<"U", "1", ".", "S", "D", "A">>, <<"R", "2">>}

InitPower ==
    /\ ksa = TRUE
    /\ fs = NoFiles
    /\ components = [k \in 1..2 |-> Component(k, None)]
    /\ connections = <<BadSrcPair>>
    /\ power_connections \in
          {None} \cup {Some([g \in 1..Len(lists) |-> Group(lists[g], "VCC")]) :
                         lists \in SeqsUpTo(SeqsUpTo(PowerRefs, MaxPins), MaxGroups)}
    /\ filename = FileBare
    /\ output_dir = None
    /\ render_svg \in BOOLEAN
    /\ auto_layout = TRUE
    /\ pc = "start"
    /\ faults = TRUE
    /\ Fresh
    /\ NoDraw

SpecPower == InitPower /\ [][Next]_vars

\* create_schematic on components with and without explicit positions, with
\* and without auto-layout
Coordinates == {<<381, -127>>, <<1000, 1270>>, <<10033, 0>>}

InitPlace ==
    /\ ksa = TRUE
    /\ fs = NoFiles
    /\ components \in ComponentLists(MaxComps, {None} \cup {Some(c) : c \in Coordinates})
    /\ connections = <<GoodPair>>
    /\ power_connections = Some(<<Group(<<<<"R", "2", ".", "2">>>>, "VCC")>>)
    /\ filename = FileBare
    /\ output_dir = None
    /\ render_svg \in BOOLEAN
    /\ auto_layout \in BOOLEAN
    /\ pc = "start"
    /\ faults = TRUE
    /\ Fresh
    /\ NoDraw

SpecPlace == InitPlace /\ [][Next]_vars

\* draw_mcu_connection on up to MaxPairs pin pairs, the collaborators never
\* failing
McuPins == {<<<<"T", "X">>, <<"1">>>>, <<<<"R", "X">>, <<"0">>>>, <<<<"S", "D", "A">>, <<"1", "8">>>>, <<<<"S", "C", "L">>, <<"1", "9">>>>}
PinPairs == {<<<<"S", "D", "A">>, <<"S", "D", "A">>>>, <<<<"S", "C", "L">>, <<"S", "C", "L">>>>, <<<<"T", "X">>, <<"R", "X">>>>,
             <<<<"S", "D", "A">>, <<"S", "C", "L">>>>, <<<<"T", "X">>, <<"S", "D", "A">>>>}
I2cLists == {None, Some(<<<<"S", "D", "A">>>>), Some(<<<<"S", "D", "A">>, <<"S", "C", "L">>>>), Some(<<<<"S", "C", "L">>, <<"T", "X">>>>)}

InitMcu ==
    /\ ksa = TRUE
    /\ fs = NoFiles
    /\ components = <<>>
    /\ connections = <<>>
    /\ power_connections = None
    /\ filename = FileBare
    /\ output_dir = None
    /\ render_svg \in BOOLEAN
    /\ auto_layout = TRUE
    /\ pc = "draw_start"
    /\ faults = FALSE
    /\ Fresh
    /\ mcu \in {Some([mcu1_name |-> <<"U", "1">>, mcu1_lib_id |-> <<"M", "C", "U", "_", "M", "o", "d", "u", "l", "e", ":", "T", "4", "1">>,
                      mcu1_pins |-> McuPins, mcu2_name |-> <<"U", "2">>,
                      mcu2_lib_id |-> <<"M", "C", "U", "_", "M", "o", "d", "u", "l", "e", ":", "R", "P", "2", "0", "4", "0">>, mcu2_pins |-> McuPins,
                      connections |-> pairs, i2c_pins |-> i2c]) :
                  pairs \in SeqsUpTo(PinPairs, MaxPairs), i2c \in I2cLists}
    /\ pullup_count = 0
    /\ processed_i2c_pins = {}
    /\ args = None

NextMcu == DrawBegin \/ McuPair \/ DrawDelegate \/ Next

SpecMcu == InitMcu /\ [][NextMcu]_vars

\* no call of create_schematic or draw_mcu_connection
Idle ==
    /\ ksa = TRUE
    /\ fs = NoFiles
    /\ components = <<>>
    /\ connections = <<>>
    /\ power_connections = None
    /\ filename = FileBare
    /\ output_dir = None
    /\ render_svg = FALSE
    /\ auto_layout = TRUE
    /\ faults = FALSE
    /\ Fresh
    /\ mcu = None
    /\ pullup_count = 0
    /\ processed_i2c_pins = {}

\* _parse_pin_ref on every string of up to MaxRefLen characters of RefChars
\* and on pin maps of the components A and B
MaxRefLen == 4
RefChars == {"A", "B", "."}
PinMapChoices == {{}, {<<<<"B">>, <<"1">>>>}, {<<<<"B">>, <<"2">>>>, <<<<"A">>, <<"1">>>>}}
PinMapsChoices ==
    UNION {[D -> PinMapChoices] : D \in SUBSET {<<"A">>, <<"B">>}}

InitParse ==
    /\ Idle
    /\ pc = "call_parse_pin_ref"
    /\ args \in {Some([pin_ref |-> r, pin_maps |-> m]) :
                   r \in SeqsUpTo(RefChars, MaxRefLen), m \in PinMapsChoices}

NextParse == CallParsePinRef

SpecParse == InitParse /\ [][NextParse]_vars

\* _infer_signal_type on every pair of these pin references
SignalRefs == {<<"U", "1", ".", "T", "X", "1">>, <<"U", "2", ".", "R", "X">>, <<"X", ".", "C", "A", "N", "_", "T", "X">>, <<"Y", ".", "C", "A", "N", "_", "R", "X">>, <<"A", ".", "C", "A", "N", "H">>, <<"B", ".", "c", "a", "n", "l">>,
               <<"u", "1", ".", "s", "d", "a">>, <<"U", "2", ".", "S", "C", "L", "K">>, <<"M", ".", "D", "E">>, <<"M", ".", "~", "r", "e">>, <<"R", "1", ".", "2">>, <<"U", "2", ".", "G", "N", "D">>,
               <<"X", ".", "F", "O", "O">>, <<"Y", ".", "B", "A", "R">>, <<"M", "O", "S", "I">>, <<"T", ".", "4", "8", "5", "_", "D", "E">>, <<"P", ".", "C">>, <<"A", "N", "1">>}

InitSignal ==
    /\ Idle
    /\ pc = "call_infer_signal_type"
    /\ args \in {Some([src |-> s, dst |-> d]) : s \in SignalRefs, d \in SignalRefs}

NextSignal == CallInferSignalType

SpecSignal == InitSignal /\ [][NextSignal]_vars

\* _auto_layout_components on every mapping of up to MaxLayout components
\* with these library identifiers (None: no 'lib_id' key)
MaxLayout == 3
LayoutIds == {None, Some(<<"M", "C", "U", "_", "M", "o", "d", "u", "l", "e", ":", "T", "4", "1">>), Some(<<"D", "e", "v", "i", "c", "e", ":", "R">>), Some(<<"D", "e", "v", "i", "c", "e", ":", "R", "_", "M", "C", "U">>),
              Some(<<"D", "e", "v", "i", "c", "e", ":", "C">>), Some(<<"D", "e", "v", "i", "c", "e", ":", "L", "E", "D">>), Some(<<"T", "i", "m", "e", "r", ":", "N", "E", "5", "5", "5">>),
              Some(<<"R", "F", "_", "M", "o", "d", "u", "l", "e", ":", "X">>)}

InitLayout ==
    /\ Idle
    /\ pc = "call_auto_layout"
    /\ args \in {Some([components |->
                         [k \in 1..Len(ids) |->
                            [ref |-> <<"X">> \o Str(k), lib_id |-> ids[k], pins |-> None,
                             position |-> None]]]) :
                   ids \in SeqsUpTo(LayoutIds, MaxLayout)}

NextLayout == CallAutoLayout

SpecLayout == InitLayout /\ [][NextLayout]_vars

\* _get_output_path, called repeatedly on a bare filename or one with a
\* directory, with and without output_dir, on file systems where the
\* directories exist or not
PathFiles == {FileBare, FileInDir,
              [dir |-> DEFAULT_OUTPUT_DIR, base |-> "circuit", ext |-> ".kicad_sch"],
              [dir |-> <<>>, base |-> "divider", ext |-> ".kicad_sch"]}
PathDirs == {None, Some(<<>>), Some(DEFAULT_OUTPUT_DIR), Some(<<<<"o", "u", "t">>>>), Some(<<<<"o", "u", "t">>, <<"r", "e", "v", "1">>>>)}
PathFileSystems ==
    {[dirs |-> D, files |-> {}] :
        D \in {D \in SUBSET {DEFAULT_OUTPUT_DIR, <<<<"o", "u", "t">>>>, <<<<"o", "u", "t">>, <<"r", "e", "v", "1">>>>} :
                 \A d \in D : Prefixes(d) \subseteq D}}

InitPath ==
    /\ ksa = TRUE
    /\ fs \in PathFileSystems
    /\ components = <<>>
    /\ connections = <<>>
    /\ power_connections = None
    /\ filename = FileBare
    /\ output_dir = None
    /\ render_svg = FALSE
    /\ auto_layout = TRUE
    /\ faults = FALSE
    /\ Fresh
    /\ mcu = None
    /\ pullup_count = 0
    /\ processed_i2c_pins = {}
    /\ pc = "call_get_output_path"
    /\ args \in {Some([filename |-> f, output_dir |-> d]) :
                   f \in PathFiles, d \in PathDirs}

NextPath == CallGetOutputPath

SpecPath == InitPath /\ [][NextPath]_vars

\* _generate_connection_md on every mapping of up to MaxReport components
\* with these library identifiers (None: no 'lib_id' key), the write of the
\* file succeeding or not
MaxReport == 3
ReportIds == {None, Some(<<"M", "C", "U", "_", "M", "o", "d", "u", "l", "e", ":", "T", "4", "1">>),
              Some(<<"D", "e", "v", "i", "c", "e", ":", "R">>),
              Some(<<"T", "i", "m", "e", "r", ":", "I", "C", "M", "7", "5", "5", "5">>),
              Some(<<"T", "e", "e", "n", "s", "y", ":", "T", "4", "1">>),
              Some(<<"R", "F", "_", "M", "o", "d", "u", "l", "e", ":", "X">>)}

InitReport ==
    /\ ksa = TRUE
    /\ fs = [dirs |-> {DEFAULT_OUTPUT_DIR}, files |-> {}]
    /\ components = <<>>
    /\ connections = <<>>
    /\ power_connections = None
    /\ filename = FileBare
    /\ output_dir = None
    /\ render_svg = FALSE
    /\ auto_layout = TRUE
    /\ faults = TRUE
    /\ Fresh
    /\ mcu = None
    /\ pullup_count = 0
    /\ processed_i2c_pins = {}
    /\ pc = "call_generate_connection_md"
    /\ args \in {Some([kicad_sch_path |-> [FileBare EXCEPT !.dir = DEFAULT_OUTPUT_DIR],
                       components |->
                         [k \in 1..Len(ids) |->
                            [ref |-> <<"X">> \o Str(k), lib_id |-> ids[k], pins |-> None,
                             position |-> None]]]) :
                   ids \in SeqsUpTo(ReportIds, MaxReport)}

NextReport == CallGenerateConnectionMd

SpecReport == InitReport /\ [][NextReport]_vars

(***************************************************************************)
(* The claims.                                                             *)
(***************************************************************************)
\* the number of separators of a pin reference
DotCount(s) == Cardinality({k \in 1..Len(s) : s[k] = "."})

\* C7: _parse_pin_ref fails with a format error (ValueError) for every pin
\* reference that does not hold exactly one '.'; for 'A.B' it returns
\* (A, m[B]) when component A has a pin map m with key B and (A, B) otherwise,
\* the map being that of component A alone.
C7_ParsePinRef ==
    pc = "returned" =>
        LET r == args[1].pin_ref
            m == args[1].pin_maps
            out == ret[1]
        IN  IF DotCount(r) # 1
            THEN ~out.ok /\ out.exc = "ValueError"
            ELSE LET p == CHOOSE k \in 1..Len(r) : r[k] = "."
                     A == SubSeq(r, 1, p - 1)
                     B == SubSeq(r, p + 1, Len(r))
                 IN  /\ out.ok
                     /\ out.ref = A
                     /\ IF A \in DOMAIN m /\ \E e \in m[A] : e[1] = B
                        THEN <<B, out.pin>> \in m[A]
                        ELSE out.pin = B

\* C7 witness: 'A.B' resolved through the map of A to 1 while the map of B
\* gives the same name another number
C7_Witness ==
    /\ pc = "returned"
    /\ args[1].pin_ref = <<"A", ".", "B">>
    /\ <<"A">> \in DOMAIN args[1].pin_maps
    /\ <<"B">> \in DOMAIN args[1].pin_maps
    /\ <<<<"B">>, <<"1">>>> \in args[1].pin_maps[<<"A">>]
    /\ <<<<"B">>, <<"2">>>> \in args[1].pin_maps[<<"B">>]
    /\ ret[1].ok
    /\ ret[1].pin = <<"1">>

\* the trailing token of a pin reference: what follows its last '.', or all
\* of it when it has none, in upper case
TrailingToken(s) ==
    LET dots == {k \in 1..Len(s) : s[k] = "."}
    IN  IF dots = {} THEN Upper(s)
        ELSE Upper(SubSeq(s, (CHOOSE k \in dots : \A j \in dots : j <= k) + 1, Len(s)))

CanLabels == {"CAN High", "CAN Low", "CAN TX", "CAN RX", "CAN"}

InControllerRow(out, ref) ==
    \E i \in 0..(Len(out.mcus) - 1) : out.positions[ref] = <<5000 + 8000 * i, 5000>>

InPassiveGrid(out, ref) ==
    LET passive_x == 5000 + 8000 * Len(out.mcus) + 4000
    IN  \E i \in 0..(Len(out.passives) - 1) :
           out.positions[ref] = <<passive_x + 2000 * (i % 4), 5000 + 1000 * (i \div 4)>>

\* C9 as stated: a component whose library identifier contains 'MCU' is never
\* placed in the passive grid, and one whose identifier starts with 'Device:R'
\* is never placed in the controller row.
C9_Original ==
    pc = "returned" =>
        \A k \in 1..Len(args[1].components) :
            LET c == args[1].components[k]
                id == Get(c.lib_id, <<>>)
            IN  /\ Contains(id, <<"M", "C", "U">>) => ~InPassiveGrid(ret[1], c.ref)
                /\ StartsWith(id, <<"D", "e", "v", "i", "c", "e", ":", "R">>) => ~InControllerRow(ret[1], c.ref)

\* C9 amended: a component whose library identifier contains 'MCU' is never
\* placed in the passive grid (it is in the controller row), and one whose
\* identifier starts with 'Device:R' and contains none of the markers 'MCU',
\* 'Module', 'IC' is never placed in the controller row (it is in the passive
\* grid).
C9_Amended ==
    pc = "returned" =>
        \A k \in 1..Len(args[1].components) :
            LET c == args[1].components[k]
                id == Get(c.lib_id, <<>>)
            IN  /\ Contains(id, <<"M", "C", "U">>) =>
                      /\ ~InPassiveGrid(ret[1], c.ref)
                      /\ InControllerRow(ret[1], c.ref)
                /\ (/\ StartsWith(id, <<"D", "e", "v", "i", "c", "e", ":", "R">>)
                    /\ ~Contains(id, <<"M", "C", "U">>)
                    /\ ~Contains(id, <<"M", "o", "d", "u", "l", "e">>)
                    /\ ~Contains(id, <<"I", "C">>)) =>
                      /\ ~InControllerRow(ret[1], c.ref)
                      /\ InPassiveGrid(ret[1], c.ref)

\* C9 witness: a 'Device:R' placed in the passive grid beside a controller
\* row that holds an 'MCU' part and a 'Device:R_MCU' part
C9_Witness ==
    /\ pc = "returned"
    /\ args # None
    /\ Len(args[1].components) = 3
    /\ args[1].components[1].lib_id = Some(<<"D", "e", "v", "i", "c", "e", ":", "R">>)
    /\ args[1].components[2].lib_id = Some(<<"M", "C", "U", "_", "M", "o", "d", "u", "l", "e", ":", "T", "4", "1">>)
    /\ args[1].components[3].lib_id = Some(<<"D", "e", "v", "i", "c", "e", ":", "R", "_", "M", "C", "U">>)
    /\ InPassiveGrid(ret[1], <<"X", "1">>)
    /\ InControllerRow(ret[1], <<"X", "2">>)
    /\ InControllerRow(ret[1], <<"X", "3">>)

\* the given field of each event of a list
FieldOf(events, field) == [k \in 1..Len(events) |-> events[k][field]]

\* the positions of create_schematic that lie after the loop of the
\* components, after the loop of the connections, after the groups
RaisedAt(places) == pc = "raised" /\ raised[1].at \in places
AfterComponents ==
    \/ pc \in {"connections", "power", "save", "render", "md", "returned"}
    \/ RaisedAt({"_add_power_net", "save"})
AfterConnections ==
    \/ pc \in {"power", "save", "render", "md", "returned"}
    \/ RaisedAt({"_add_power_net", "save"})
AfterSave == pc \in {"render", "md", "returned"} \/ RaisedAt({"save"})

\* the first event of each iteration of the loop of the connections
ConnectionStarts ==
    SelectSeq(calls, LAMBDA e : \/ e.op = "auto_route_pins"
                                \/ e.op = "print" /\ e.what = "parse")

\* the first pin reference of the group resolves (or the group is empty)
FirstPinResolves(group) ==
    group.pin_list = <<>> \/ _parse_pin_ref(group.pin_list[1], <<>>).ok

\* the run has no failure but those of the collaborator's add-component, route
\* and direct-wire calls and of the pin references of the connection list
OnlyItemFailures ==
    /\ ksa
    /\ power_connections # None =>
          \A g \in 1..Len(power_connections[1]) : FirstPinResolves(power_connections[1][g])

\* C2: under any combination of failures of the add-component, route and
\* direct-wire calls and of pin references of the connection list, every
\* component gets exactly one placement attempt and every connection is
\* processed, in the supplied order; no such failure leaves the call, and the
\* call goes on until the persist step is made.
C2_EveryItemAttempted ==
    /\ AfterComponents =>
          FieldOf(CallsOf("add"), "ref") = [k \in 1..Len(components) |-> components[k].ref]
    /\ AfterConnections =>
          FieldOf(ConnectionStarts, "conn") = [k \in 1..Len(connections) |-> k]
    /\ pc = "raised" => raised[1].at \in {"_ensure_ksa", "_add_power_net", "save"}
    /\ RaisedAt({"_add_power_net"}) => ~FirstPinResolves(power_connections[1][idx])
    /\ (OnlyItemFailures /\ pc \in {"start", "components", "connections", "power", "save"})
          => ENABLED Next
    /\ AfterSave => Len(CallsOf("save")) = 1

\* C2 witness: the first of two components failed to be placed, the first of
\* two connections did not resolve, the route of the second failed, and both
\* components and both connections were attempted before the schematic was
\* persisted
C2_Witness ==
    /\ pc = "render"
    /\ Len(components) = 2
    /\ Len(connections) = 2
    /\ ~CallsOf("add")[1].ok
    /\ Len(CallsOf("add")) = 2
    /\ ConnectionStarts[1].op = "print"
    /\ ConnectionStarts[2].op = "auto_route_pins"
    /\ ~ConnectionStarts[2].ok
    /\ CallsOf("save")[1].ok

RenderFailures == {"not_found", "nonzero_exit", "timeout"}

\* C3: when rendering is requested and the persist step succeeded, each of
\* the renderer outcomes 'binary not found', 'non-zero exit' and 'timeout' only
\* skips the render step: no exception leaves _render_svg, the markdown report
\* is generated afterwards, and create_schematic returns the resolved
\* schematic path.
C3_RenderFailureSkipsOnlyRender ==
    \A k \in 1..Len(calls) :
        (calls[k].op = "kicad-cli" /\ calls[k].outcome \in RenderFailures) =>
            /\ render_svg
            /\ pc \in {"md", "returned"}
            /\ raised = None
            /\ filename \in fs.files
            /\ SvgPath(filename) \notin fs.files
            /\ pc = "returned" =>
                  /\ \E j \in (k + 1)..Len(calls) :
                        calls[j].op = "write_md" /\ calls[j].path = MdPath(filename)
                  /\ ret = Some(CallsOf("save")[1].path)
                  /\ ret[1].dir # <<>>
                  /\ ret[1].dir \in fs.dirs \/ ret[1] = FileInDir

\* C3 witness: the renderer timed out, the report was written and the call
\* returned the path under the default output directory
C3_Witness ==
    /\ pc = "returned"
    /\ \E k \in 1..Len(calls) : calls[k].op = "kicad-cli" /\ calls[k].outcome = "timeout"
    /\ calls[Len(calls)].op = "write_md"
    /\ calls[Len(calls)].ok
    /\ ret = Some([FileBare EXCEPT !.dir = DEFAULT_OUTPUT_DIR])

\* C1 as stated: for every shared-net group, whatever its pin references
\* (a first pin reference that does not resolve included), the label step is
\* not fatal and a failed pair is skipped with a warning: the build goes on to
\* the remaining pairs, the remaining groups and the persist step, and never
\* aborts because of one group.
C1_GroupNeverAborts ==
    /\ ~RaisedAt({"_add_power_net"})
    /\ AfterSave =>
          \A g \in 1..(IF Truthy(power_connections) THEN Len(power_connections[1]) ELSE 0) :
              power_connections[1][g].pin_list # <<>> =>
                  \E k \in 1..Len(calls) : calls[k].op = "label_try" /\ calls[k].group = g

\* the try blocks _add_power_net entered for group g
LabelTries(g) == SelectSeq(calls, LAMBDA e : e.op = "label_try" /\ e.group = g)
JoinTries(g) == SelectSeq(calls, LAMBDA e : e.op = "join_try" /\ e.group = g)

\* the call of _add_power_net for group g is over
GroupDone(g) ==
    /\ Truthy(power_connections)
    /\ g \in 1..Len(power_connections[1])
    /\ \/ pc = "power" /\ idx > g
       \/ AfterSave
       \/ pc = "save"
       \/ RaisedAt({"_add_power_net"}) /\ idx >= g

\* C4 as stated: for every group of n >= 1 pin references _add_power_net makes
\* exactly 1 label placement attempt and exactly n-1 wire-join attempts, one
\* per adjacent pair in list order; for an empty group it makes no call on the
\* schematic collaborator.
C4_OneLabelAndAllJoins ==
    \A g \in 1..MaxGroups :
        GroupDone(g) =>
            LET n == Len(power_connections[1][g].pin_list)
            IN  IF n = 0
                THEN \A k \in 1..Len(calls) :
                        calls[k].op \in {"label_try", "join_try", "add_label",
                                         "get_component_pin_position"}
                           => calls[k].group # g
                ELSE /\ Len(LabelTries(g)) = 1
                     /\ FieldOf(JoinTries(g), "pair") = [i \in 1..(n - 1) |-> i]

\* C10: every position create_schematic hands to the add-component call,
\* from the auto-layout, from an explicit 'position' or from the default, has
\* both coordinates at an integer multiple of the grid unit (254 hundredths of
\* a millimetre), and snapping such a coordinate again returns it.
C10_PositionsOnGrid ==
    \A k \in 1..Len(calls) :
        calls[k].op = "add" =>
            \A c \in 1..2 :
                /\ calls[k].pos[c] % 254 = 0
                /\ _snap_to_grid(calls[k].pos[c]) = calls[k].pos[c]

\* C10 witness: one component placed from its explicit position (3.81, -1.27),
\* snapped to (5.08, 0), and one from the auto-layout position (170, 50),
\* snapped to (170.18, 50.8)
C10_Witness ==
    /\ Len(components) = 2
    /\ components[1].position = Some(<<381, -127>>)
    /\ components[2].position = None
    /\ Len(CallsOf("add")) = 2
    /\ CallsOf("add")[1].pos = <<508, 0>>
    /\ auto_layout
    /\ CallsOf("add")[2].pos = <<17018, 5080>>

\* the pairs of a call of draw_mcu_connection and the signal each selects:
\* its first name if flagged, else its second if flagged
DrawPairs == mcu[1].connections
Flagged == {Get(mcu[1].i2c_pins, <<>>)[k] : k \in 1..Len(Get(mcu[1].i2c_pins, <<>>))}
Selects(k) == DrawPairs[k][1] \in Flagged \/ DrawPairs[k][2] \in Flagged
Selected(k) == IF DrawPairs[k][1] \in Flagged THEN DrawPairs[k][1] ELSE DrawPairs[k][2]

\* the pairs at which a flagged signal is selected for the first time
FirstSelections ==
    {k \in 1..Len(DrawPairs) :
        Selects(k) /\ \A j \in 1..(k - 1) : Selects(j) => Selected(j) # Selected(k)}

\* how many first selections lie at or before pair k
Rank(k) == Cardinality({j \in FirstSelections : j <= k})

\* draw_mcu_connection has handed its inputs to create_schematic
Delegated == mcu # None /\ pc \notin {"draw_start", "draw_pairs"}

\* the resistors among the components, in order
Resistors == SelectSeq(components, LAMBDA c : c.lib_id = Some(<<"D", "e", "v", "i", "c", "e", ":", "R">>))

\* C5: in draw_mcu_connection a flagged signal name that appears in more than
\* one pair gets exactly one pull-up resistor: the number of resistors created
\* equals the number of distinct flagged signal names selected over the pairs,
\* and they are numbered R1..Rk in order of first appearance.
C5_OnePullupPerSignal ==
    Delegated =>
        LET K == Cardinality({Selected(k) : k \in {j \in 1..Len(DrawPairs) : Selects(j)}})
        IN  /\ pullup_count = K
            /\ Cardinality(FirstSelections) = K
            /\ FieldOf(Resistors, "ref") = [j \in 1..K |-> <<"R">> \o Str(j)]
            /\ Len(components) = 2 + K
            /\ \A k \in FirstSelections :
                  \E c \in 1..Len(connections) :
                      connections[c] = <<PinRef(mcu[1].mcu1_name, DrawPairs[k][1]),
                                         PinRef(<<"R">> \o Str(Rank(k)), <<"1">>)>>

\* C5 witness: SDA selected by the first and the third pair and SCL by the
\* second; two resistors, R1 for SDA and R2 for SCL
C5_Witness ==
    /\ Delegated
    /\ DrawPairs = <<<<<<"S", "D", "A">>, <<"S", "D", "A">>>>, <<<<"S", "C", "L">>, <<"S", "C", "L">>>>, <<<<"S", "D", "A">>, <<"S", "C", "L">>>>>>
    /\ mcu[1].i2c_pins = Some(<<<<"S", "D", "A">>, <<"S", "C", "L">>>>)
    /\ pullup_count = 2
    /\ FieldOf(Resistors, "ref") = <<<<"R", "1">>, <<"R", "2">>>>
    /\ connections[4] = <<<<"U", "1", ".", "S", "C", "L">>, <<"R", "2", ".", "1">>>>
    /\ pc = "returned"

\* C6 as stated: every pull-up resistor has terminal 1 connected to the first
\* controller's pin of its pair and terminal 2 in one shared supply group: with
\* k >= 2 pull-ups the inputs handed to create_schematic hold a single VCC
\* group with the terminal-2 pin of all k resistors, so that they are joined
\* onto one net.
C6_SharedSupplyGroup ==
    Delegated =>
        /\ \A k \in FirstSelections :
              \E c \in 1..Len(connections) :
                  connections[c] = <<PinRef(mcu[1].mcu1_name, DrawPairs[k][1]),
                                     PinRef(<<"R">> \o Str(Rank(k)), <<"1">>)>>
        /\ pullup_count >= 2 =>
              /\ power_connections # None
              /\ Cardinality({g \in 1..Len(power_connections[1]) :
                                 power_connections[1][g].net_name = "VCC"}) = 1
              /\ \E g \in 1..Len(power_connections[1]) :
                    /\ power_connections[1][g].net_name = "VCC"
                    /\ \A j \in 1..pullup_count :
                          InList(power_connections[1][g].pin_list,
                                 PinRef(<<"R">> \o Str(j), <<"2">>))
              /\ pc = "returned" =>
                    Len(SelectSeq(calls, LAMBDA e : e.op = "add_wire_between_pins"
                                                    /\ e.group # 0)) = pullup_count - 1

\* C11: _get_output_path called repeatedly on the same arguments.  With a
\* bare filename every call returns the same path, the filename under
\* output_dir (under DEFAULT_OUTPUT_DIR when output_dir is None or empty),
\* and when that directory was absent before the first call it is created
\* once, by the first call, and by no later one.  A filename with a
\* directory is returned unchanged whatever output_dir is.
C11_OutputPathIdempotent ==
    pc = "call_get_output_path" =>
        LET f == args[1].filename
            d == args[1].output_dir
            P == CallsOf("_get_output_path")
            M == CallsOf("makedirs")
            target == IF d = None \/ d[1] = <<>> THEN DEFAULT_OUTPUT_DIR ELSE d[1]
        IN  /\ f.dir = <<>> =>
                /\ \A k \in 1..Len(P) : P[k].path = [f EXCEPT !.dir = target]
                /\ (Len(P) >= 1 /\ ~P[1].existed) =>
                      /\ Len(M) = 1
                      /\ calls[1] = [op |-> "makedirs", dir |-> target]
                      /\ \A k \in 2..Len(P) : P[k].existed
                      /\ target \in fs.dirs
            /\ f.dir # <<>> => \A k \in 1..Len(P) : P[k].path = f

\* two calls on a bare filename with an output_dir that did not exist
C11_Witness ==
    /\ pc = "call_get_output_path"
    /\ args[1].filename.dir = <<>>
    /\ args[1].output_dir = Some(<<<<"o", "u", "t">>, <<"r", "e", "v", "1">>>>)
    /\ Len(CallsOf("_get_output_path")) = 2
    /\ ~CallsOf("_get_output_path")[1].existed
    /\ Len(CallsOf("makedirs")) = 1
    /\ calls[3].path = calls[2].path

\* C12: a report that _generate_connection_md wrote holds the voltage-level
\* reminder whenever two or more of the components are of the category the
\* auto-layout places in the controller row.
C12_ReminderForControllerClass ==
    (pc = "returned" /\ args # None /\ ret # None /\ ret[1] # None) =>
        (Len(RefsOf(args[1].components, "mcus")) >= 2 =>
            CallsOf("write_md")[1].voltage_note)

\* the positions in calls of the route attempts, of the direct-wire attempts
\* and of the warnings of the k-th connection
RouteAttempts(k) ==
    {j \in 1..Len(calls) : calls[j].op = "auto_route_pins" /\ calls[j].conn = k}
WireAttempts(k) ==
    {j \in 1..Len(calls) : calls[j].op = "add_wire_between_pins" /\ calls[j].conn = k}
Warnings(k, what) ==
    {j \in 1..Len(calls) :
        calls[j].op = "print" /\ calls[j].what = what /\ calls[j].conn = k}

\* the k-th iteration of the loop of the connections is over
ConnectionDone(k) ==
    /\ k \in 1..Len(connections)
    /\ (pc = "connections" /\ k < idx) \/ AfterConnections

\* both endpoints of the k-th connection resolve
Resolves(k) ==
    /\ _parse_pin_ref(connections[k][1], pin_maps).ok
    /\ _parse_pin_ref(connections[k][2], pin_maps).ok

\* C13: a connection whose two endpoints resolve gets one attempt of the
\* obstacle-avoiding route, first; the direct wire is attempted iff the route
\* failed, once, right after it; when both fail the connection is warned
\* about and skipped, and the loop goes on.  A connection with an endpoint
\* that does not resolve gets no route attempt and no wire attempt.
C13_RouteThenWireFallback ==
    \A k \in 1..Len(connections) :
        ConnectionDone(k) =>
            IF Resolves(k)
            THEN /\ Cardinality(RouteAttempts(k)) = 1
                 /\ LET r == CHOOSE j \in RouteAttempts(k) : TRUE
                    IN  IF calls[r].ok
                        THEN WireAttempts(k) = {}
                        ELSE /\ WireAttempts(k) = {r + 1}
                             /\ IF calls[r + 1].ok
                                THEN Warnings(k, "connect") = {}
                                ELSE Warnings(k, "connect") = {r + 2}
                 /\ Warnings(k, "parse") = {}
                 /\ ~RaisedAt({"connections"})
            ELSE /\ RouteAttempts(k) = {}
                 /\ WireAttempts(k) = {}
                 /\ Cardinality(Warnings(k, "parse")) = 1

\* C13 witness: of two connections that resolve, the first was routed and got
\* no wire attempt, the route and the direct wire of the second both failed,
\* and the call went on to persist the schematic
C13_Witness ==
    /\ pc = "render"
    /\ Len(connections) = 2
    /\ Resolves(1) /\ Resolves(2)
    /\ \E r \in RouteAttempts(1) : calls[r].ok
    /\ WireAttempts(1) = {}
    /\ \E r \in RouteAttempts(2) : ~calls[r].ok
    /\ \E w \in WireAttempts(2) : ~calls[w].ok
    /\ Warnings(2, "connect") # {}

\* the positions in calls of the events with the given op
At(op) == {j \in 1..Len(calls) : calls[j].op = op}

\* the calls and warnings of the steps before the persist step, and of the
\* steps after it
BuildOps == {"create_schematic", "add", "auto_route_pins", "add_wire_between_pins",
             "label_try", "get_component_pin_position", "add_label", "join_try"}
BuildWarnings == {"component", "parse", "connect", "label", "power"}
FinishOps == {"kicad-cli", "write_md"}
FinishWarnings == {"render", "markdown"}
IsBuildEvent(e) == e.op \in BuildOps \/ (e.op = "print" /\ e.what \in BuildWarnings)
IsFinishEvent(e) == e.op \in FinishOps \/ (e.op = "print" /\ e.what \in FinishWarnings)

\* C14: the order of the steps of create_schematic.  A missing library raises
\* ImportError before any call on a collaborator and before any directory or
\* file is created.  sch.save is called at most once, after one placement
\* attempt per component, every connection and every shared-net group, and
\* exactly once in a call that returns.  kicad-cli is run at most once, only
\* with the render flag set and only after a save that succeeded.  The
\* report is written at most once, after that save and after the renderer
\* has run (flag set) or was skipped (flag clear).
C14_StepOrder ==
    /\ (~ksa /\ pc # "start") =>
          /\ RaisedAt({"_ensure_ksa"})
          /\ raised[1].exc = "ImportError"
          /\ fs = NoFiles
          /\ calls = <<>>
    /\ (fs # NoFiles \/ calls # <<>>) => ksa
    /\ Cardinality(At("save")) <= 1
    /\ \A s \in At("save") :
          /\ \A j \in 1..(s - 1) : IsBuildEvent(calls[j])
          /\ \A j \in (s + 1)..Len(calls) : calls[s].ok /\ IsFinishEvent(calls[j])
          /\ FieldOf(CallsOf("add"), "ref") = [k \in 1..Len(components) |-> components[k].ref]
          /\ FieldOf(ConnectionStarts, "conn") = [k \in 1..Len(connections) |-> k]
          /\ Truthy(power_connections) =>
                \A g \in 1..Len(power_connections[1]) :
                    power_connections[1][g].pin_list # <<>> => Len(LabelTries(g)) = 1
    /\ At("save") = {} => \A j \in 1..Len(calls) : IsBuildEvent(calls[j])
    /\ Cardinality(At("kicad-cli")) <= 1
    /\ At("kicad-cli") # {} => render_svg
    /\ Cardinality(At("write_md")) <= 1
    /\ \A w \in At("write_md") :
          /\ \A r \in At("kicad-cli") : r < w
          /\ render_svg => At("kicad-cli") # {}
    /\ pc = "md" => (render_svg <=> At("kicad-cli") # {})
    /\ pc = "returned" =>
          /\ Cardinality(At("save")) = 1
          /\ Cardinality(At("write_md")) = 1
          /\ Cardinality(At("kicad-cli")) = IF render_svg THEN 1 ELSE 0
    /\ pc \in {"render", "md", "returned"} => \E s \in At("save") : calls[s].ok

\* C14 witness: a call that returned after the placements, a connection and
\* a group, then the save, the renderer and the report, in this order
C14_Witness ==
    /\ pc = "returned"
    /\ render_svg
    /\ Len(components) = 2
    /\ Len(connections) >= 1
    /\ Truthy(power_connections)
    /\ \E s \in At("save"), r \in At("kicad-cli"), w \in At("write_md") :
          /\ s < r /\ r < w
          /\ \A a \in At("add") \cup At("auto_route_pins") \cup At("label_try") : a < s
          /\ At("label_try") # {}

\* C14 witness of the missing library: ImportError and nothing created
C14_MissingLibrary ==
    /\ ~ksa
    /\ RaisedAt({"_ensure_ksa"})
    /\ fs = NoFiles

====
